---- MODULE Spec2Model ----
(***************************************************************************)
(* Model of src/Voice.js: one synthesizer voice on top of a Web Audio      *)
(* host.  The host side (nodes, connections, the automation timeline of    *)
(* an AudioParam, oscillator start/stop and the "ended" event) is modelled *)
(* as far as Voice.js drives it.                                           *)
(*                                                                         *)
(* Time is counted in ticks of 0.01 s, the common unit of the constants    *)
(* of Voice.js (0.02, 0.01, 0.5, 0.01).  Amplitudes and frequencies are    *)
(* exact rationals <<numerator, denominator>>.                             *)
(***************************************************************************)
EXTENDS Integers, Sequences, FiniteSets, TLC

(* ------------------------------ bounds -------------------------------- *)

\* The caller acts tick by tick during the first MaxTick ticks; later the
\* clock moves from one scheduled host event to the next.
MaxTick == 3

\* Number of calls of start()/stop()/dispose() the caller makes in a run
\* with one voice, and in a run with two voices sharing the sink.
MaxOps == 3
MaxOpsShared == 3
\* ... and in a run of one voice under the host's fairness.
MaxOpsFair == 2

\* The envelope is compared with its ADSR shape for this many ticks after
\* start().
EnvHorizon == 5

(* ----------------------------- rationals ------------------------------ *)

RECURSIVE GCD(_, _)
GCD(a, b) == IF b = 0 THEN a ELSE GCD(b, a % b)

Abs(x) == IF x < 0 THEN -x ELSE x

\* The rational n/d (d # 0) in lowest terms with a positive denominator.
Rat(n, d) ==
    LET g == GCD(Abs(n), Abs(d))
        s == IF d < 0 THEN -1 ELSE 1
    IN  << (s * n) \div g, (s * d) \div g >>

RInt(n) == << n, 1 >>
RNeg(x) == << -x[1], x[2] >>
\* Sums and products cancel common factors first, to keep the numbers small.
RAdd(x, y) ==
    LET g == GCD(x[2], y[2])
    IN  Rat(x[1] * (y[2] \div g) + y[1] * (x[2] \div g), (x[2] \div g) * y[2])
RSub(x, y) == RAdd(x, RNeg(y))
RMul(x, y) ==
    LET g1 == GCD(Abs(x[1]), y[2])
        g2 == GCD(Abs(y[1]), x[2])
    IN  Rat((x[1] \div g1) * (y[1] \div g2), (x[2] \div g2) * (y[2] \div g1))
\* x / k for an integer k > 0
RDivInt(x, k) == RMul(x, << 1, k >>)
RLess(x, y) ==
    LET g == GCD(x[2], y[2])
    IN  x[1] * (y[2] \div g) < y[1] * (x[2] \div g)
RLeq(x, y) == ~RLess(y, x)

(* --------------------------- Voice constants -------------------------- *)

\* this.attack = 0.02, this.decay = 0.01, this.release = 0.5 (ticks of 0.01 s)
attack == 2
decay == 1
release == 50
\* this.sustain = 0.5
sustain == Rat(1, 2)
\* const stopTime = now + this.release + 0.01
StopPad == 1

(* ------------------------------ universe ------------------------------ *)

Voices == {"A", "B"}
\* The <<frequency (Hz), maxAmp>> a caller constructs a voice with: peak
\* amplitudes 0.8, 0 and the out-of-range 1.5.
Params == { << 440, Rat(4, 5) >>, << 256, Rat(0, 1) >>, << 256, Rat(3, 2) >> }

\* The externally owned output node every voice connects into.
Sink == << "host", 0, "output" >>
\* JavaScript's undefined (a field never assigned) and null.
Undefined == << "undefined" >>
Null == << "null" >>
\* No stop() has been scheduled on an oscillator.
NoStop == -1
NoHandler == "none"

\* Mutant of DisposedFields: dispose() visits the lowpass filter as well.
DisposedFieldsWithFilter ==
    << "osc", "osc2", "osc3", "osc2scale", "osc3scale",
       "ringModGain", "ringModModulator", "ampEnv", "lpFilter" >>

\* The node fields of a Voice, in the order dispose() visits them, then the
\* one it does not visit.
DisposedFields ==
    << "osc", "osc2", "osc3", "osc2scale", "osc3scale",
       "ringModGain", "ringModModulator", "ampEnv" >>
NodeFields == DisposedFields \o << "lpFilter" >>
\* The oscillators stop() stops, in its order.
StoppedFields == << "osc", "osc2", "osc3", "ringModModulator" >>

Range(s) == { s[i] : i \in DOMAIN s }

VARIABLES
    now,        \* context.currentTime, in ticks
    pool,       \* the caller's voices: voice -> <<frequency, maxAmp>>
    fields,     \* voice -> its object fields (constructed voices only)
    gen,        \* voice -> number of start() calls so far (names the nodes)
    nodes,      \* host: node id -> node state
    edges,      \* host: set of connections
    opsLeft,    \* caller calls still to be made
    lastCall,   \* the last Voice method that ran, and how it ended
    hist        \* <<voice, generation>> -> what happened to that graph: the
                \* time of start(), the time and pinned gain of each stop(),
                \* whether dispose() tore it down, and the times its ended
                \* handler called dispose()

vars == << now, pool, fields, gen, nodes, edges, opsLeft, lastCall, hist >>

(* ------------------------- host: AudioParam --------------------------- *)

\* An automation event of an AudioParam timeline.
SetValue(v, t) == [type |-> "setValue", value |-> v, time |-> t]
LinearRamp(v, t) == [type |-> "linearRamp", value |-> v, time |-> t]

\* AudioParam.setValueAtTime / linearRampToValueAtTime: the event is put
\* into the time-ordered list, after the events of the same time.
InsertEvent(ev, e) ==
    LET before == SelectSeq(ev, LAMBDA x : x.time <= e.time)
        after == SelectSeq(ev, LAMBDA x : x.time > e.time)
    IN  before \o << e >> \o after

\* AudioParam.cancelScheduledValues(t): drops every event at or after t.
CancelScheduledValues(ev, t) == SelectSeq(ev, LAMBDA x : x.time < t)

\* A linear ramp from v0 to v1 over b ticks, a ticks after its start:
\* v0 + (v1 - v0) * a / b, computed over one common denominator.
Lerp(v0, v1, a, b) ==
    Rat(v0[1] * v1[2] * (b - a) + v1[1] * v0[2] * a, v0[2] * v1[2] * b)

\* The value the timeline ev gives the parameter at time t; dflt is the
\* value the parameter has when no event applies.
ValueAt(ev, dflt, t) ==
    LET past == { i \in DOMAIN ev : ev[i].time <= t }
        prev == IF past = {} THEN 0
                ELSE CHOOSE i \in past : \A j \in past : j <= i
        hasNext == prev + 1 \in DOMAIN ev
        v0 == IF prev = 0 THEN dflt ELSE ev[prev].value
        t0 == IF prev = 0 THEN t ELSE ev[prev].time
    IN  IF hasNext /\ ev[prev + 1].type = "linearRamp"
        THEN Lerp(v0, ev[prev + 1].value, t - t0, ev[prev + 1].time - t0)
        ELSE v0

(* --------------------------- host: nodes ------------------------------ *)

\* new OscillatorNode(ctx): a sine at 440 Hz, not started, no handler.
OscillatorNode ==
    [kind |-> "OscillatorNode", type |-> "sine", frequency |-> RInt(440),
     started |-> FALSE, stopTime |-> NoStop, ended |-> FALSE,
     onended |-> NoHandler]

\* new GainNode(ctx, {gain: g}): gain is the value the parameter is given at
\* construction, events its automation timeline.
GainNode(opts) ==
    [kind |-> "GainNode",
     gain |-> IF "gain" \in DOMAIN opts THEN opts.gain ELSE RInt(1),
     events |-> << >>]

\* param.value read at time t: the value the host has rendered for the
\* parameter at t, which is what its timeline gives there.
ParamValue(p, t) == ValueAt(p.events, p.gain, t)

\* new BiquadFilterNode(ctx, options): the host reads the members type,
\* frequency and Q of the options dictionary; any other member is ignored.
BiquadFilterNode(opts) ==
    [kind |-> "BiquadFilterNode",
     type |-> IF "type" \in DOMAIN opts THEN opts.type ELSE "lowpass",
     frequency |-> IF "frequency" \in DOMAIN opts THEN opts.frequency
                   ELSE RInt(350),
     Q |-> IF "Q" \in DOMAIN opts THEN opts.Q ELSE RInt(1)]

IsNode(x) == x \in DOMAIN nodes

\* a.connect(b) and a.connect(b.gain)
Connect(es, a, b, port) == es \cup {[from |-> a, to |-> b, port |-> port]}

\* Mutant of Disconnect: the connections of every node in the same place of
\* any voice's graph are removed, as if the nodes were shared between voices.
DisconnectShared(es, a) == { e \in es : e.from[3] # a[3] }

\* a.disconnect(): removes every outgoing connection of a.
Disconnect(es, a) == { e \in es : e.from # a }

\* Mutant of OscStop: the first stop time set is kept, later calls are
\* ignored.
OscStopFirstWins(o, t) ==
    IF o.stopTime # NoStop THEN o
    ELSE [o EXCEPT !.stopTime = t]

\* osc.stop(t): sets the stop time; the last call wins, and a call on an
\* oscillator that has already stopped playing has no effect.
OscStop(o, t) ==
    IF o.stopTime # NoStop /\ o.stopTime <= now THEN o
    ELSE [o EXCEPT !.stopTime = t]

\* The connections that end in the output sink.
SinkIn == { e \in edges : e.to = Sink }

(* ------------------------------ Voice --------------------------------- *)

NodeId(v, g, f) == << v, g, f >>

\* The record of a method call that was made: its number, the method, the
\* voice, who called it ("caller", or "ended" for the onended handler),
\* whether it threw, whether the voice held its nodes on entry, whether the
\* graph the call is for had been torn down before, and the oscillator
\* whose event made the call.
Call(op, v, by, error, held, already, src) ==
    [seq |-> lastCall.seq + 1, op |-> op, v |-> v, by |-> by,
     error |-> error, held |-> held, already |-> already, src |-> src]

\* Mutant of NewVoice: maxAmp is clamped into [0, 1] before it is stored.
NewVoiceClamped(f, m) ==
    [context |-> "ctx", frequency |-> f,
     maxAmp |-> IF RLess(RInt(1), m) THEN RInt(1)
                ELSE IF RLess(m, RInt(0)) THEN RInt(0) ELSE m,
     output |-> Sink,
     attack |-> attack, decay |-> decay, sustain |-> sustain,
     release |-> release,
     osc |-> Undefined, osc2 |-> Undefined, osc3 |-> Undefined,
     osc2scale |-> Undefined, osc3scale |-> Undefined,
     ringModGain |-> Undefined, ringModModulator |-> Undefined,
     ampEnv |-> Undefined, lpFilter |-> Undefined]

\* constructor(ctx, freq, maxAmp, out)
NewVoice(f, m) ==
    [context |-> "ctx", frequency |-> f, maxAmp |-> m, output |-> Sink,
     attack |-> attack, decay |-> decay, sustain |-> sustain,
     release |-> release,
     osc |-> Undefined, osc2 |-> Undefined, osc3 |-> Undefined,
     osc2scale |-> Undefined, osc3scale |-> Undefined,
     ringModGain |-> Undefined, ringModModulator |-> Undefined,
     ampEnv |-> Undefined, lpFilter |-> Undefined]

\* new Voice(ctx, f, m, out) for voice v of the pool
Construct(v) ==
    /\ v \in DOMAIN pool \ DOMAIN fields
    /\ fields' = fields @@ (v :> NewVoice(pool[v][1], pool[v][2]))
    /\ gen' = gen @@ (v :> 0)
    /\ UNCHANGED << now, pool, nodes, edges, opsLeft, lastCall, hist >>

\* Mutant of StartEvents: the attack rises to full scale, not to maxAmp.
StartEventsFullScale(th, t) ==
    InsertEvent(
      InsertEvent(
        InsertEvent(<< >>, SetValue(RInt(0), t)),
        LinearRamp(RInt(1), t + th.attack)),
      LinearRamp(RMul(th.sustain, th.maxAmp), t + th.attack + th.decay))

\* Mutant of StartEvents: the decay ends at the sustain fraction itself, not
\* at that fraction of maxAmp.
StartEventsAbsoluteSustain(th, t) ==
    InsertEvent(
      InsertEvent(
        InsertEvent(<< >>, SetValue(RInt(0), t)),
        LinearRamp(th.maxAmp, t + th.attack)),
      LinearRamp(th.sustain, t + th.attack + th.decay))

\* The envelope timeline start() writes at time t (lines 68 and 98-102).
StartEvents(th, t) ==
    InsertEvent(
      InsertEvent(
        InsertEvent(<< >>, SetValue(RInt(0), t)),
        LinearRamp(th.maxAmp, t + th.attack)),
      LinearRamp(RMul(th.sustain, th.maxAmp), t + th.attack + th.decay))

\* The nodes start() creates for voice v as its g-th graph.
StartNodes(v, g) ==
    LET th == fields[v]
        f == th.frequency
        id(k) == NodeId(v, g, k)
    IN  (id("osc") :>
            [OscillatorNode EXCEPT !.frequency = RInt(f), !.onended = v,
                                   !.started = TRUE])
     @@ (id("osc2") :>
            [OscillatorNode EXCEPT !.type = "sawtooth",
                                   !.frequency = RInt(f * 2),
                                   !.started = TRUE])
     @@ (id("osc2scale") :> GainNode([gain |-> Rat(1, 2)]))
     @@ (id("osc3") :>
            [OscillatorNode EXCEPT !.type = "triangle",
                                   !.frequency = Rat(f, 2),
                                   !.started = TRUE])
     @@ (id("osc3scale") :> GainNode([gain |-> RInt(1)]))
     @@ (id("ringModGain") :> GainNode([gain |-> RInt(0)]))
     @@ (id("ringModModulator") :>
            [OscillatorNode EXCEPT !.frequency = Rat(f, 128),
                                   !.started = TRUE])
     @@ (id("ampEnv") :>
            [GainNode([gain |-> RInt(0)]) EXCEPT !.events =
                StartEvents(th, now)])
     @@ (id("lpFilter") :>
            BiquadFilterNode([type |-> "lowpass",
                              frequency |-> RInt(f + 2000),
                              q |-> RInt(2)]))

\* Mutant of StartEdges: the envelope is connected straight to the output
\* and the filter left out of the path.
StartEdgesNoFilter(v, g) ==
    LET id(k) == NodeId(v, g, k)
        c1 == Connect({}, id("ringModModulator"), id("ringModGain"), "gain")
        c2 == Connect(c1, id("osc"), id("ringModGain"), "input")
        c3 == Connect(c2, id("osc2"), id("osc2scale"), "input")
        c4 == Connect(c3, id("osc2scale"), id("ringModGain"), "input")
        c5 == Connect(c4, id("osc3"), id("osc3scale"), "input")
        c6 == Connect(c5, id("osc3scale"), id("ringModGain"), "input")
        c7 == Connect(c6, id("ringModGain"), id("ampEnv"), "input")
    IN  Connect(c7, id("ampEnv"), fields[v].output, "input")

\* The connections start() makes for voice v's g-th graph.
StartEdges(v, g) ==
    LET id(k) == NodeId(v, g, k)
        c1 == Connect({}, id("ringModModulator"), id("ringModGain"), "gain")
        c2 == Connect(c1, id("osc"), id("ringModGain"), "input")
        c3 == Connect(c2, id("osc2"), id("osc2scale"), "input")
        c4 == Connect(c3, id("osc2scale"), id("ringModGain"), "input")
        c5 == Connect(c4, id("osc3"), id("osc3scale"), "input")
        c6 == Connect(c5, id("osc3scale"), id("ringModGain"), "input")
        c7 == Connect(c6, id("ringModGain"), id("ampEnv"), "input")
        c8 == Connect(c7, id("ampEnv"), id("lpFilter"), "input")
    IN  Connect(c8, id("lpFilter"), fields[v].output, "input")

\* start(), called by the caller
Start(v) ==
    /\ v \in DOMAIN fields
    /\ opsLeft > 0
    /\ LET g == gen[v] + 1
           id(k) == NodeId(v, g, k)
       IN  /\ gen' = [gen EXCEPT ![v] = g]
           /\ nodes' = StartNodes(v, g) @@ nodes
           /\ edges' = edges \cup StartEdges(v, g)
           /\ fields' = [fields EXCEPT ![v] =
                 [k \in DOMAIN @ |->
                    IF k \in Range(NodeFields) THEN id(k) ELSE @[k]]]
           /\ hist' = hist @@ (<< v, g >> :>
                 [t0 |-> now, stops |-> << >>, tornDown |-> FALSE,
                  auto |-> << >>])
           /\ lastCall' = Call("start", v, "caller", FALSE,
                               IsNode(fields[v].osc), FALSE, Null)
    /\ opsLeft' = opsLeft - 1
    /\ UNCHANGED << now, pool >>

\* Lines 120-123 of stop(): x.stop(t) on the fields fs[i..], in order; a
\* field that holds no node makes the call throw, with what was done kept.
RECURSIVE StopOscillators(_, _, _, _, _)
StopOscillators(ns, th, fs, i, t) ==
    IF i > Len(fs) THEN [nodes |-> ns, error |-> FALSE]
    ELSE IF th[fs[i]] \notin DOMAIN ns THEN [nodes |-> ns, error |-> TRUE]
    ELSE StopOscillators(
            [ns EXCEPT ![th[fs[i]]] = OscStop(@, t)], th, fs, i + 1, t)

\* Mutant of ReleaseEvents: the pending ramps are not cancelled.
ReleaseEventsNoCancel(ev, g, t, rel) ==
    InsertEvent(InsertEvent(ev, SetValue(g, t)), LinearRamp(RInt(0), t + rel))

\* Mutant of ReleaseEvents: the gain is not pinned at t before the ramp.
ReleaseEventsNoPin(ev, g, t, rel) ==
    InsertEvent(CancelScheduledValues(ev, t), LinearRamp(RInt(0), t + rel))

\* The envelope timeline after lines 112-116 of stop() at time t, where g
\* is the value read from ampEnv.gain.value.
ReleaseEvents(ev, g, t, rel) ==
    InsertEvent(
      InsertEvent(CancelScheduledValues(ev, t), SetValue(g, t)),
      LinearRamp(RInt(0), t + rel))

\* Mutant of StopTime: the oscillators stop when the release ramp ends,
\* without the 10 ms after it.
StopTimeNoPad(th, t) == t + th.release

\* Mutant of StopTime: the release time is left out of the stop time.
StopTimeNoRelease(th, t) == t + StopPad

\* const stopTime = now + this.release + 0.01
StopTime(th, t) == t + th.release + StopPad

\* stop(), called by the caller
Stop(v) ==
    /\ v \in DOMAIN fields
    /\ opsLeft > 0
    /\ opsLeft' = opsLeft - 1
    /\ LET th == fields[v]
           held == IsNode(th.osc)
       IN  IF ~IsNode(th.ampEnv)
           THEN \* TypeError at line 112
                /\ lastCall' = Call("stop", v, "caller", TRUE, held,
                                    FALSE, Null)
                /\ UNCHANGED << nodes, hist >>
           ELSE LET env == nodes[th.ampEnv]
                    g == ParamValue(env, now)
                    ns1 == [nodes EXCEPT ![th.ampEnv].events =
                               ReleaseEvents(@, g, now, th.release)]
                    r == StopOscillators(ns1, th, StoppedFields, 1,
                                         StopTime(th, now))
                    key == << th.ampEnv[1], th.ampEnv[2] >>
                IN  /\ nodes' = r.nodes
                    /\ hist' = [hist EXCEPT ![key].stops =
                                   Append(@, [t |-> now, g |-> g])]
                    /\ lastCall' = Call("stop", v, "caller", r.error, held,
                                        FALSE, Null)
    /\ UNCHANGED << now, pool, fields, gen, edges >>

\* Mutant of DisconnectFields: a field that holds no node is skipped (as with
\* x?.disconnect()) instead of making the call throw.
RECURSIVE DisconnectFieldsSkippingNull(_, _, _, _)
DisconnectFieldsSkippingNull(es, th, fs, i) ==
    IF i > Len(fs) THEN [edges |-> es, error |-> FALSE]
    ELSE IF ~IsNode(th[fs[i]])
         THEN DisconnectFieldsSkippingNull(es, th, fs, i + 1)
    ELSE DisconnectFieldsSkippingNull(Disconnect(es, th[fs[i]]), th, fs, i + 1)

\* Lines 132-139 of dispose(): x.disconnect() on the fields fs[i..], in
\* order; a field that holds no node makes the call throw.
RECURSIVE DisconnectFields(_, _, _, _)
DisconnectFields(es, th, fs, i) ==
    IF i > Len(fs) THEN [edges |-> es, error |-> FALSE]
    ELSE IF ~IsNode(th[fs[i]]) THEN [edges |-> es, error |-> TRUE]
    ELSE DisconnectFields(Disconnect(es, th[fs[i]]), th, fs, i + 1)

\* Lines 142-149 of dispose(): the fields fs are set to null.
NullFields(th, fs) ==
    [k \in DOMAIN th |-> IF k \in Range(fs) THEN Null ELSE th[k]]

\* The body of dispose() on voice v, called by `by`; src is the oscillator
\* whose ended event made the call (Null for a call of the caller).
DisposeBody(v, by, src) ==
    LET th == fields[v]
        held == IsNode(th.osc)
        r == DisconnectFields(edges, th, DisposedFields, 1)
        cur == << v, gen[v] >>
        for == IF by = "ended" THEN << src[1], src[2] >> ELSE cur
        already == for \in DOMAIN hist /\ hist[for].tornDown
    IN  /\ edges' = r.edges
        /\ fields' = IF r.error THEN fields
                     ELSE [fields EXCEPT ![v] = NullFields(@, DisposedFields)]
        /\ hist' =
             LET h1 == IF by = "ended"
                       THEN [hist EXCEPT ![for].auto = Append(@, now)]
                       ELSE hist
             IN  IF r.error \/ ~held THEN h1
                 ELSE [h1 EXCEPT
                         ![<< th.osc[1], th.osc[2] >>].tornDown = TRUE]
        /\ lastCall' = Call("dispose", v, by, r.error, held, already, src)

\* dispose(), called by the caller
Dispose(v) ==
    /\ v \in DOMAIN fields
    /\ opsLeft > 0
    /\ opsLeft' = opsLeft - 1
    /\ DisposeBody(v, "caller", Null)
    /\ UNCHANGED << now, pool, gen, nodes >>

\* An oscillator has stopped playing: its stop time has been reached.
Stopped(o) == o.started /\ o.stopTime # NoStop /\ o.stopTime <= now

\* The host dispatches the ended event of oscillator n, once, after it has
\* stopped playing; the handler registered at line 45 is dispose bound to
\* the voice.  (An ended event without a handler has no effect and is not
\* modelled.)
Ended(n) ==
    /\ n \in DOMAIN nodes
    /\ nodes[n].kind = "OscillatorNode"
    /\ nodes[n].onended # NoHandler
    /\ Stopped(nodes[n])
    /\ ~nodes[n].ended
    /\ nodes' = [nodes EXCEPT ![n].ended = TRUE]
    /\ DisposeBody(nodes[n].onended, "ended", n)
    /\ UNCHANGED << now, pool, gen, opsLeft >>

\* The times of the host's timeline that lie ahead: oscillator stop times
\* and envelope events.
PendingTimes ==
    { nodes[n].stopTime : n \in { x \in DOMAIN nodes :
          nodes[x].kind = "OscillatorNode" /\ nodes[x].stopTime > now } }
    \cup UNION { { nodes[n].events[i].time : i \in { j \in
                     DOMAIN nodes[n].events : nodes[n].events[j].time > now } }
                 : n \in { x \in DOMAIN nodes : nodes[x].kind = "GainNode" } }

\* The clock advances to t.
AdvanceTo(t) ==
    /\ t > now
    /\ now' = t
    /\ UNCHANGED << pool, fields, gen, nodes, edges, opsLeft, lastCall, hist >>

\* The clock advances: by one tick while the caller is active, or to the
\* next time of the host's timeline.
Advance ==
    \/ /\ now < MaxTick
       /\ AdvanceTo(now + 1)
    \/ /\ PendingTimes # {}
       /\ AdvanceTo(CHOOSE t \in PendingTimes : \A u \in PendingTimes : t <= u)

(* --------------------------- specifications --------------------------- *)

NoCall ==
    [seq |-> 0, op |-> "none", v |-> "none", by |-> "none",
     error |-> FALSE, held |-> FALSE, already |-> FALSE, src |-> Null]

\* The caller has constructed its voices; nothing else has happened.
InitWith(ps, ops) ==
    /\ now = 0
    /\ pool = ps
    /\ fields = [v \in DOMAIN ps |-> NewVoice(ps[v][1], ps[v][2])]
    /\ gen = [v \in DOMAIN ps |-> 0]
    /\ nodes = << >>
    /\ edges = {}
    /\ opsLeft = ops
    /\ lastCall = NoCall
    /\ hist = << >>

\* One voice on the sink, with any of the parameters.
Init == \E p \in Params : InitWith("A" :> p, MaxOps)

\* Two voices sharing the sink.
InitShared ==
    InitWith(("A" :> << 440, Rat(4, 5) >>) @@ ("B" :> << 256, Rat(3, 2) >>),
             MaxOpsShared)

\* The voices are still to be constructed: one voice with any of the
\* parameters, or the two voices that share the sink.
InitNew ==
    /\ now = 0
    /\ \/ pool \in [{"A"} -> Params] /\ opsLeft = MaxOps
       \/ /\ pool = ("A" :> << 440, Rat(4, 5) >>) @@ ("B" :> << 256, Rat(3, 2) >>)
          /\ opsLeft = MaxOpsShared
    /\ fields = << >>
    /\ gen = << >>
    /\ nodes = << >>
    /\ edges = {}
    /\ lastCall = NoCall
    /\ hist = << >>

Next ==
    \/ \E v \in Voices : Start(v)
    \/ \E v \in Voices : Stop(v)
    \/ \E v \in Voices : Dispose(v)
    \/ \E n \in DOMAIN nodes : Ended(n)
    \/ Advance

NextNew ==
    \/ \E v \in Voices : Construct(v)
    \/ Next

Spec == Init /\ [][Next]_vars

\* The graphs a run can build.
GraphIds == Voices \X (1 .. MaxOps)

\* A step of the host: the clock advances, or an ended event is dispatched.
HostStep == Advance \/ \E n \in DOMAIN nodes : Ended(n)

\* The host keeps running: the clock keeps advancing and the ended event of
\* an oscillator that has stopped playing is dispatched.
Fairness == WF_vars(HostStep)

InitFair == \E p \in Params : InitWith("A" :> p, MaxOpsFair)

FairSpec == InitFair /\ [][Next]_vars /\ Fairness
SpecShared == InitShared /\ [][Next]_vars
SpecNew == InitNew /\ [][NextNew]_vars

(* ------------------------- state predicates --------------------------- *)

Constructed == DOMAIN fields
\* The lifecycle states of a voice, read off its primary oscillator field.
Created(v) == fields[v].osc = Undefined
Holding(v) == IsNode(fields[v].osc)
Disposed(v) == fields[v].osc = Null

\* The node fields of v that hold a node.
HeldFields(v) == { k \in Range(NodeFields) : IsNode(fields[v][k]) }
\* The connections from a node of voice v into the output sink.
VoiceSinkIn(v) == { e \in SinkIn : e.from[1] = v }
\* The graphs that were built, as <<voice, generation>>.
Graphs == DOMAIN hist
EnvOf(k) == nodes[NodeId(k[1], k[2], "ampEnv")]
PrimaryOf(k) == nodes[NodeId(k[1], k[2], "osc")]
\* The gain the envelope timeline of graph k gives at time t.
EnvAt(k, t) == ParamValue(EnvOf(k), t)

(* ------------------------------- C1 ----------------------------------- *)

\* C1: once a started and stopped voice's primary oscillator has ended and
\* dispose() has run, no node of the voice is connected to the output sink
\* any more (the sink's incoming connections are what they were before
\* start()).
C1_SinkRestoredAfterEnded ==
    \A v \in Constructed :
        ( /\ gen[v] > 0
          /\ Disposed(v)
          /\ PrimaryOf(<< v, gen[v] >>).ended )
        => VoiceSinkIn(v) = {}

(* ------------------------------- C2 ----------------------------------- *)

\* C2: a voice that has not been started, or has been disposed, holds no
\* reference to any of the nine nodes it created.
C2_NoReferencesOutsideLifetime ==
    \A v \in Constructed :
        (Created(v) \/ Disposed(v)) => HeldFields(v) = {}

(* ------------------------------- C3 ----------------------------------- *)

\* C3: dispose() is idempotent: a dispose() of the caller on a started voice
\* that is already disposed raises no error and changes neither the voice
\* nor the audio graph.
C3_DisposeIdempotent ==
    [][ \A v \in Voices :
          ( /\ v \in Constructed
            /\ gen[v] > 0
            /\ Disposed(v)
            /\ lastCall'.seq # lastCall.seq
            /\ lastCall'.op = "dispose"
            /\ lastCall'.by = "caller"
            /\ lastCall'.v = v )
          => ( /\ ~lastCall'.error
               /\ UNCHANGED << fields, nodes, edges >> ) ]_vars

(* ------------------------------- C4 ----------------------------------- *)

\* C4: teardown runs exactly once per started graph: the ended handler never
\* runs dispose() for a graph that an explicit dispose() has already torn
\* down.
C4_TeardownOnce ==
    (lastCall.op = "dispose" /\ lastCall.by = "ended") => ~lastCall.already

(* ------------------------------- C5 ----------------------------------- *)

\* C5: after start() and a stop() at time t1, with the clock advancing,
\* dispose() is eventually called by the primary oscillator's ended handler
\* without any call of the caller, and not before the oscillator has ended:
\* never earlier than t1 + release + 0.01.
C5_AutoDispose ==
    /\ \A k \in GraphIds :
          (k \in Graphs /\ hist[k].stops # << >>)
          ~> (k \in Graphs /\ hist[k].auto # << >>)
    /\ [](\A k \in Graphs : \A i \in DOMAIN hist[k].auto :
             /\ hist[k].stops # << >>
             /\ hist[k].auto[i] >= PrimaryOf(k).stopTime
             /\ PrimaryOf(k).stopTime
                   >= hist[k].stops[1].t + release + StopPad)

\* A voice that was stopped once and left alone has been disposed by its
\* ended handler, exactly at t1 + release + 0.01.
C5_Witness ==
    \E k \in Graphs :
        /\ Len(hist[k].stops) = 1
        /\ hist[k].auto = << hist[k].stops[1].t + release + StopPad >>
        /\ lastCall.by = "ended"
        /\ ~lastCall.error
        /\ Disposed(k[1])

(* ------------------------------- C6 ----------------------------------- *)

\* The first stop() made on graph k.
FirstStop(k) == hist[k].stops[1]
\* All four oscillators of graph k have the stop time t.
OscillatorsStopAt(k, t) ==
    \A f \in Range(StoppedFields) : nodes[NodeId(k[1], k[2], f)].stopTime = t

\* C6 as claimed: for every stop() at t1 on a running voice with gain g, the
\* envelope falls strictly monotonically from g at t1 to 0 at exactly
\* t1 + 0.5 s, and all four oscillators stop at t1 + 0.51 s.
C6_ReleaseStrict ==
    \A k \in Graphs :
        hist[k].stops # << >> =>
            LET t1 == FirstStop(k).t
            IN  /\ EnvAt(k, t1) = FirstStop(k).g
                /\ EnvAt(k, t1 + 50) = RInt(0)
                /\ \A t \in t1 .. (t1 + 49) :
                      RLess(EnvAt(k, t + 1), EnvAt(k, t))
                /\ OscillatorsStopAt(k, t1 + 51)

\* C6 as amended: for every stop() at t1 on a running voice with gain g, as
\* long as no further stop() is made on it, the envelope falls linearly from
\* g at t1 to 0 at exactly t1 + 0.5 s (strictly decreasing when g > 0,
\* constant 0 when g = 0), and all four oscillators stop at t1 + 0.51 s.
C6_ReleaseLinear ==
    \A k \in Graphs :
        Len(hist[k].stops) = 1 =>
            LET t1 == FirstStop(k).t
                g == FirstStop(k).g
                env == [j \in 0 .. 50 |-> EnvAt(k, t1 + j)]
                line == [j \in 0 .. 50 |-> Rat(g[1] * (50 - j), g[2] * 50)]
            IN  /\ env = line
                /\ env[0] = g
                /\ env[50] = RInt(0)
                /\ \A j \in 0 .. 49 :
                      IF RLess(RInt(0), g) THEN RLess(env[j + 1], env[j])
                      ELSE env[j + 1] = env[j]
                /\ OscillatorsStopAt(k, t1 + 51)

\* A voice stopped once during its attack, at a positive gain, whose release
\* has just run out.
C6_Witness ==
    \E k \in Graphs :
        /\ Len(hist[k].stops) = 1
        /\ RLess(RInt(0), FirstStop(k).g)
        /\ FirstStop(k).t = hist[k].t0 + 1
        /\ now = FirstStop(k).t + 50
        /\ EnvAt(k, now) = RInt(0)

(* ------------------------------- C7 ----------------------------------- *)

\* The ADSR shape for peak m, j ticks after start(): 0 at 0, linear to m at
\* 0.02 s, linear to 0.5 m at 0.03 s, 0.5 m afterwards.
Shape(m, j) ==
    IF j <= 2 THEN RDivInt(RMul(m, RInt(j)), 2)
    ELSE IF j <= 3 THEN RSub(m, RMul(RDivInt(m, 2), RInt(j - 2)))
    ELSE RDivInt(m, 2)

\* C7: for every maxAmp m, after start() at t0 and as long as stop() has not
\* been called, the envelope gain is 0 at t0, rises linearly to m at
\* t0 + 0.02, falls linearly to 0.5 m at t0 + 0.03 and is 0.5 m at every
\* later time.
C7_EnvelopeShape ==
    \A k \in Graphs :
        hist[k].stops = << >> =>
            LET m == pool[k[1]][2]
                t0 == hist[k].t0
            IN  /\ \A j \in 0 .. EnvHorizon : EnvAt(k, t0 + j) = Shape(m, j)
                /\ EnvAt(k, now) = Shape(m, now - t0)

\* A running voice with a positive peak that has reached its sustain level.
C7_Witness ==
    \E k \in Graphs :
        /\ hist[k].stops = << >>
        /\ RLess(RInt(0), pool[k[1]][2])
        /\ now > hist[k].t0 + 3
        /\ EnvAt(k, now) = RDivInt(pool[k[1]][2], 2)
        /\ EnvAt(k, hist[k].t0 + 2) = pool[k[1]][2]

(* ------------------------------- C8 ----------------------------------- *)

\* What belongs to voice w: its fields, its nodes (with their envelope
\* timelines and stop times) and the connections from or to its nodes.
VoiceView(w) ==
    [fields |-> fields[w],
     nodes |-> [n \in { x \in DOMAIN nodes : x[1] = w } |-> nodes[n]],
     edges |-> { e \in edges : e.from[1] = w \/ e.to[1] = w }]

\* C8: with two voices on the same sink, no method call on one voice
\* (start, stop, dispose, or dispose from its ended event) changes the other
\* voice's node references, nodes, envelope timeline, stop times or
\* connections, the one into the sink included.
C8_Isolation ==
    [][ \A v \in Voices : \A w \in Voices \ {v} :
          (lastCall'.seq # lastCall.seq /\ lastCall'.v = v)
          => VoiceView(w)' = VoiceView(w) ]_vars

\* Voice A has just been torn down while voice B holds its graph and is
\* connected to the shared sink.
C8_Witness ==
    /\ lastCall.op = "dispose"
    /\ lastCall.v = "A"
    /\ ~lastCall.error
    /\ Holding("B")
    /\ VoiceSinkIn("B") # {}

(* ------------------------------- C9 ----------------------------------- *)

\* C9: Disposed is terminal: once a voice is disposed, no call takes it out
\* of Disposed; it never again holds node references, adds a connection to
\* the sink or builds a graph.
C9_DisposedTerminal ==
    [][ \A v \in Voices :
          (v \in Constructed /\ Disposed(v))
          => ( /\ Disposed(v)'
               /\ gen'[v] = gen[v]
               /\ VoiceSinkIn(v)' \subseteq VoiceSinkIn(v) ) ]_vars

(* ------------------------------- C10 ---------------------------------- *)

\* The paths of connections from node n to the output sink.
RECURSIVE Paths(_)
Paths(n) ==
    IF n = Sink THEN { << Sink >> }
    ELSE UNION { { << n >> \o p : p \in Paths(e.to) }
                 : e \in { x \in edges : x.from = n } }

\* a, b and c occur on path p in this order.
InOrder(p, a, b, c) ==
    \E i, j, l \in DOMAIN p :
        i < j /\ j < l /\ p[i] = a /\ p[j] = b /\ p[l] = c

\* C10: in the graph built by start(), for as long as the voice holds it,
\* every path from each of the three signal oscillators to the output sink
\* passes through ring-mod gain -> envelope gain -> lowpass filter in this
\* order, the only connection into the sink comes from the lowpass filter,
\* and the modulator's only outgoing connection is to the gain parameter of
\* the ring-mod gain stage.
C10_GraphShape ==
    /\ \A e \in SinkIn : e.from[3] = "lpFilter"
    /\ \A v \in Constructed :
        Holding(v) =>
            LET th == fields[v]
            IN  /\ \A o \in { th.osc, th.osc2, th.osc3 } :
                      /\ Paths(o) # {}
                      /\ \A p \in Paths(o) :
                            InOrder(p, th.ringModGain, th.ampEnv, th.lpFilter)
                /\ \A e \in edges :
                      (e.to = th.ringModGain
                         /\ e.from \in { th.osc, th.osc2scale, th.osc3scale })
                      => e.port = "input"
                /\ { e \in edges : e.to = Sink /\ e.from[1] = v
                                   /\ e.from[2] = gen[v] }
                      = { [from |-> th.lpFilter, to |-> Sink,
                           port |-> "input"] }
                /\ { e \in edges : e.from = th.ringModModulator }
                      = { [from |-> th.ringModModulator,
                           to |-> th.ringModGain, port |-> "gain"] }

\* start() has just built a voice's second graph.
C10_Witness ==
    \E v \in Constructed :
        /\ lastCall.op = "start"
        /\ lastCall.v = v
        /\ gen[v] = 2
        /\ Paths(fields[v].osc2) # {}

(* ------------------------------- C11 ---------------------------------- *)

\* C11: for every base frequency f, right after start() the primary,
\* harmonic and subharmonic oscillators have the frequencies f, 2f and f/2,
\* the modulator f/128, and the lowpass filter the cutoff f + 2000 Hz and
\* Q = 2 on the host's filter node.
C11_NodeParameters ==
    \A v \in Constructed :
        (lastCall.op = "start" /\ lastCall.v = v) =>
            LET th == fields[v]
                f == pool[v][1]
            IN  /\ nodes[th.osc].frequency = Rat(f, 1)
                /\ nodes[th.osc2].frequency = Rat(2 * f, 1)
                /\ nodes[th.osc3].frequency = Rat(f, 2)
                /\ nodes[th.ringModModulator].frequency = Rat(f, 128)
                /\ nodes[th.lpFilter].type = "lowpass"
                /\ nodes[th.lpFilter].frequency = Rat(f + 2000, 1)
                /\ nodes[th.lpFilter].Q = Rat(2, 1)

(* ------------------------------- C12 ---------------------------------- *)

\* C12: constructing a voice stores clock, frequency, maxAmp and output
\* unchanged and changes nothing else: no node is created, no connection is
\* added, nothing is scheduled, and no other voice is touched.
C12_ConstructorFrame ==
    [][ \A v \in Voices :
          (v \notin Constructed /\ v \in Constructed')
          => ( /\ fields'[v].context = "ctx"
               /\ fields'[v].frequency = pool[v][1]
               /\ fields'[v].maxAmp = pool[v][2]
               /\ fields'[v].output = Sink
               /\ HeldFields(v)' = {}
               /\ \A w \in Constructed : fields'[w] = fields[w]
               /\ UNCHANGED << now, nodes, edges, hist, lastCall >> ) ]_vars

\* A voice constructed with the out-of-range maxAmp 1.5 while another voice
\* has its graph on the sink.
C12_Witness ==
    \E v \in Constructed : \E w \in Constructed \ {v} :
        /\ gen[v] = 0
        /\ fields[v].maxAmp = Rat(3, 2)
        /\ Holding(w)
        /\ SinkIn # {}

(* ------------------------------- C13 ---------------------------------- *)

\* The last stop() made on graph k.
LastStop(k) == hist[k].stops[Len(hist[k].stops)]
\* stop() has just been carried out on graph k.
StopsGraph(k) == Len(hist'[k].stops) > Len(hist[k].stops)

\* The events of stop() on graph k: every envelope event scheduled at or
\* after the time of the call is removed, no event before it is altered, and
\* the value pinned is the instantaneous gain at the call, never above the
\* value an earlier stop() pinned.
StopCancels ==
    \A k \in Graphs :
        StopsGraph(k) =>
            LET old == EnvOf(k).events
                new == EnvOf(k)'.events
                g == ParamValue(EnvOf(k), now)
            IN  /\ SelectSeq(new, LAMBDA x : x.time < now)
                     = SelectSeq(old, LAMBDA x : x.time < now)
                /\ SelectSeq(new, LAMBDA x : x.time >= now)
                     = << SetValue(g, now),
                          LinearRamp(RInt(0), now + fields[k[1]].release) >>
                /\ LastStop(k)' = [t |-> now, g |-> g]
                /\ hist[k].stops # << >> => RLeq(g, LastStop(k).g)

\* On a stopped graph the gain is the pinned value at the time of the last
\* stop() and never above it at any later time.
StopPins ==
    \A k \in Graphs :
        hist[k].stops # << >> =>
            LET t1 == LastStop(k).t
                g == LastStop(k).g
                after == [j \in 0 .. (release + StopPad) |-> EnvAt(k, t1 + j)]
                top == [j \in 0 .. (release + StopPad) |-> g]
            IN  /\ after # top => after[0] = g
                /\ \A j \in DOMAIN after : RLeq(after[j], g)

\* C13: for stop() at any time t1 after start(), also during attack and
\* decay: every envelope event scheduled at or after t1 is removed, no event
\* before t1 is altered, the gain is pinned to its instantaneous value at
\* t1, and from t1 on the gain never rises above that value.
C13_StopCancelsAndPins == [][StopCancels]_vars /\ []StopPins

\* stop() has just been made in the middle of the attack, at half the peak,
\* with the rest of the attack and the decay taken off the timeline.
C13_Witness ==
    \E k \in Graphs :
        /\ lastCall.op = "stop" /\ ~lastCall.error
        /\ Len(hist[k].stops) = 1
        /\ now = hist[k].t0 + 1
        /\ LastStop(k).t = now
        /\ RLess(RInt(0), LastStop(k).g)
        /\ LastStop(k).g = RDivInt(pool[k[1]][2], 2)
        /\ Len(EnvOf(k).events) = 3

(* ------------------------------- C14 ---------------------------------- *)

\* C14 as claimed: a second stop() at t2 > t1 on a voice that is releasing
\* raises no error and restarts the release: the envelope reaches 0 at
\* t2 + 0.5 s and all four oscillators stop at t2 + 0.51 s.
C14_SecondStopRestarts ==
    [][ \A k \in Graphs :
          (StopsGraph(k) /\ hist[k].stops # << >> /\ now > LastStop(k).t)
          => ( /\ ~lastCall'.error
               /\ EnvAt(k, now + release)' = RInt(0)
               /\ OscillatorsStopAt(k, now + release + StopPad)' ) ]_vars

\* C14 as amended: a second stop() at t2 > t1 raises no error and the
\* envelope is 0 at t2 + 0.5 s; when the oscillators are still playing at t2
\* (t2 before their stop time) all four now stop at t2 + 0.51 s, and when
\* they have already stopped their stop time stays as it was.
C14_SecondStopWhilePlaying ==
    [][ \A k \in Graphs :
          (StopsGraph(k) /\ hist[k].stops # << >> /\ now > LastStop(k).t)
          => ( /\ ~lastCall'.error
               /\ EnvAt(k, now + release)' = RInt(0)
               /\ IF now < PrimaryOf(k).stopTime
                  THEN OscillatorsStopAt(k, now + release + StopPad)'
                  ELSE /\ OscillatorsStopAt(k, PrimaryOf(k).stopTime)'
                       /\ EnvAt(k, now) = RInt(0) ) ]_vars

\* A voice stopped a second time, later than the first and at a positive
\* gain, whose oscillators now stop 0.51 s after the second stop().
C14_Witness ==
    \E k \in Graphs :
        /\ Len(hist[k].stops) = 2
        /\ hist[k].stops[2].t > hist[k].stops[1].t
        /\ RLess(RInt(0), hist[k].stops[2].g)
        /\ OscillatorsStopAt(k, hist[k].stops[2].t + release + StopPad)
        /\ lastCall.op = "stop"

(* ------------------------------- C15 ---------------------------------- *)

\* The times from which graph k's gain is to be 0: the 10 ms before the
\* oscillators' stop time begin, and every envelope event from there on
\* (between two events the gain is linear).
SilentTimes(k) ==
    LET s == PrimaryOf(k).stopTime
        ev == EnvOf(k).events
    IN  {s - StopPad, s}
          \cup { ev[i].time : i \in { j \in DOMAIN ev : ev[j].time >= s - StopPad } }

\* C15 as claimed: for any number and timing of stop() calls, each
\* oscillator's stop time is strictly later than the time at which the last
\* scheduled release ramp reaches 0.
C15_StopAfterLastRamp ==
    \A k \in Graphs :
        hist[k].stops # << >> =>
            \A f \in Range(StoppedFields) :
                nodes[NodeId(k[1], k[2], f)].stopTime
                    > LastStop(k).t + release

\* C15 as amended: for any number and timing of stop() calls, none of the
\* four oscillators stops while the envelope gain is above 0: they share one
\* stop time, the gain is 0 from 10 ms before that time on, and the ended
\* handler does not run before it.
C15_SilentAtStop ==
    \A k \in Graphs :
        hist[k].stops # << >> =>
            LET s == PrimaryOf(k).stopTime
            IN  /\ s # NoStop
                /\ OscillatorsStopAt(k, s)
                /\ \A t \in SilentTimes(k) : EnvAt(k, t) = RInt(0)
                /\ \A i \in DOMAIN hist[k].auto : hist[k].auto[i] >= s

\* A voice stopped twice at a positive gain whose oscillators have just
\* stopped playing.
C15_Witness ==
    \E k \in Graphs :
        /\ Len(hist[k].stops) = 2
        /\ RLess(RInt(0), LastStop(k).g)
        /\ now = PrimaryOf(k).stopTime
        /\ EnvAt(k, now) = RInt(0)

(* ------------------------------- C16 ---------------------------------- *)

\* A call of method op on voice v has just been made.
Called(op, v) ==
    /\ lastCall'.seq # lastCall.seq
    /\ lastCall'.op = op
    /\ lastCall'.v = v

Scheduled ==
    [n \in DOMAIN nodes |->
        IF nodes[n].kind = "OscillatorNode"
        THEN [nodes[n] EXCEPT !.ended = FALSE] ELSE nodes[n]]

\* C17: stop() or dispose() called while the voice holds no node references
\* (before start(), or after disposal) fails with an error before it has any
\* effect: nothing is scheduled, no stop time is set, no connection is
\* changed and the voice's fields are unchanged.
C17_ThrowsWithoutEffect ==
    [][ \A v \in Constructed :
          ((Called("stop", v) \/ Called("dispose", v))
             /\ (Created(v) \/ Disposed(v)))
          => ( /\ lastCall'.error
               /\ fields' = fields
               /\ edges' = edges
               /\ Scheduled' = Scheduled
               /\ now' = now ) ]_vars

\* stop() has just thrown on a disposed voice, and the graph that was torn
\* down is as the teardown left it.
C17_Witness ==
    /\ lastCall.op = "stop"
    /\ lastCall.by = "caller"
    /\ lastCall.error
    /\ Disposed(lastCall.v)
    /\ hist[<< lastCall.v, gen[lastCall.v] >>].tornDown

(* ------------------------------- C19 ---------------------------------- *)

\* C19: whenever a voice is disposed, all four oscillators of the graph that
\* was torn down have stopped or have a stop time scheduled; dispose() on a
\* running voice does not leave them running with no way to stop them.
C19_DisposedOscillatorsStop ==
    \A k \in Graphs :
        (Disposed(k[1]) /\ hist[k].tornDown) =>
            \A f \in Range(StoppedFields) :
                nodes[NodeId(k[1], k[2], f)].stopTime # NoStop

(* ------------------------------- C18 ---------------------------------- *)

\* The times at which graph k's gain can be extreme from now on: now and
\* the times of the envelope events (between two events the gain is linear,
\* after the last one constant).
TurningTimes(k) ==
    {now} \cup { EnvOf(k).events[i].time : i \in DOMAIN EnvOf(k).events }

\* C18: for 0 <= maxAmp <= 1, in every reachable state, over start()
\* followed by any number of stop() calls, the envelope gain lies in
\* [0, maxAmp] at the current time and at every later time.
C18_GainBounded ==
    \A k \in Graphs :
        LET m == pool[k[1]][2]
        IN  (RLeq(RInt(0), m) /\ RLeq(m, RInt(1))) =>
                \A t \in TurningTimes(k) :
                    /\ RLeq(RInt(0), EnvAt(k, t))
                    /\ RLeq(EnvAt(k, t), m)

\* A voice with maxAmp 0.8, stopped twice, the second time in the middle of
\* the first release, whose gain is strictly between 0 and maxAmp.
C18_Witness ==
    \E k \in Graphs :
        /\ pool[k[1]][2] = Rat(4, 5)
        /\ Len(hist[k].stops) = 2
        /\ hist[k].stops[2].t > hist[k].stops[1].t
        /\ RLess(RInt(0), EnvAt(k, now))
        /\ RLess(EnvAt(k, now), LastStop(k).g)
        /\ RLess(LastStop(k).g, hist[k].stops[1].g)

====
